---- MODULE Spec2Model ----
(***************************************************************************)
(* Model of the separate-chaining HashTable (class HashTable and its       *)
(* main), as a state machine over the members table_ and size_.            *)
(*                                                                         *)
(* A bucket is the sequence of the data fields of its list nodes, head     *)
(* first.  Bucket index i of the C++ vector is position i + 1 of table_.   *)
(***************************************************************************)
EXTENDS Integers, Sequences, FiniteSets

\* std::max(cap, 10) in the constructor.
MinCapacity == 10

\* Bound on the number of insert calls of one behaviour.
MaxInserts == 7

\* Arguments of insert: keys >= 0 (hash() is data % K, so an insert of a
\* negative key writes outside the vector).  1 and 41 share a bucket for
\* K = 10, 20 and 40.
Keys == {1, 2, 41}

\* Arguments of find and erase (int): the inserted keys, keys that are never
\* inserted, and a negative key.
FindKeys == Keys \cup {-1, 15, 999}

\* Arguments of the constructor.
CapRequests == {-3, 0, 1, 10, 11}

\* The inserts of main(), in order.
MainKeys == <<1, 15, 1, 2, 3, 1, 12>>

\* The constructor argument of main().
MainCap == 10

\* The number of inserts of the sequential scenario.
SeqInserts == 1000

\* Bound on the number of insert and remove calls on the linear probing table.
MaxLPCalls == 6

\* Arguments of its constructor: nextPrime makes both a table of 5 slots.
LPSizes == {4, 5}

\* Keys of the linear probing table: 0, 5 and 10 share the home slot 0 of a
\* table of 5 slots, 0 and 11 that of a table of 11 slots.
LPKeys == {0, 5, 11}

\* Values of the linear probing table.
LPValues == {1, 2}

\* The edges of main() of graph_2.cpp, in order.
MainEdges ==
    << [a |-> 1, b |-> 2], [a |-> 1, b |-> 3], [a |-> 2, b |-> 3],
       [a |-> 3, b |-> 4], [a |-> 3, b |-> 5], [a |-> 4, b |-> 5],
       [a |-> 6, b |-> 7] >>

\* The edges of main() of the edge-list snippet, in order.
SnippetEdges ==
    << [a |-> 1, b |-> 2], [a |-> 1, b |-> 5], [a |-> 1, b |-> 4],
       [a |-> 2, b |-> 3], [a |-> 3, b |-> 4], [a |-> 3, b |-> 6],
       [a |-> 4, b |-> 5] >>

\* A path of four edges next to a single edge.
PathEdges ==
    << [a |-> 1, b |-> 2], [a |-> 2, b |-> 3], [a |-> 3, b |-> 4],
       [a |-> 4, b |-> 5], [a |-> 6, b |-> 7] >>

\* A graph with a repeated edge and a self-loop.
LoopEdges ==
    << [a |-> 2, b |-> 1], [a |-> 1, b |-> 2], [a |-> 2, b |-> 2],
       [a |-> 5, b |-> 6] >>

\* The edge lists the traversals are called with.
EdgeLists == {MainEdges, SnippetEdges, PathEdges, LoopEdges}

\* The node arguments of the traversals: 1 .. 7 are nodes of some edge
\* list, 0 is a node of none.
Nodes == 0..7

\* Bound on the number of dfs and bfs calls of graph_2.cpp in one behaviour.
MaxTraversals == 2

\* The iteration order of a std::unordered_set<int> is unspecified: the
\* model has the sets iterated in ascending or in descending order.
Orders == {"ascending", "descending"}

\* Bound on the number of insert calls on the PrefixTree.
MaxTreeInserts == 3

\* Arguments of PrefixTree::insert: "", "a", "ab", "abc", "aac", "b", "z".
\* A char c of a word is kept as c - 'a', 0 .. 25 for 'a' .. 'z'.
InsertWords == {<<>>, <<0>>, <<0, 1>>, <<0, 1, 2>>, <<0, 0, 2>>, <<1>>, <<25>>}

\* Arguments of PrefixTree::find: these, and "aa", "abcd", "gtr".
FindWords == InsertWords \cup {<<0, 0>>, <<0, 1, 2, 3>>, <<6, 19, 17>>}

VARIABLES
    table_,     \* std::vector<ListNode*> table_
    size_,      \* int size_
    inserted,   \* history: the arguments of the insert calls so far
    resizes,    \* history: the number of resize() calls so far
    allocated,  \* history: the number of ListNode objects created by new
                \* and not deleted
    call,       \* the last public member function called and its argument
    ret,        \* how that call ended: its bool result, "value", "void",
                \* or "hang" / "crash" when it never returned
    val,        \* the int that call returned (size()), else 0
    out,        \* the lines that call wrote to std::cout (print())
    lp,         \* a LinearProbingHashTable<int, int> (hashing.md): its members
                \* table, tableSize, numElements, numDeleted
    lpCalls,    \* history: the number of its insert and remove calls so far
    lpCall,     \* its last public member function called, with the arguments
    lpRet,      \* how that call ended: "void", "true", "false", "nullptr",
                \* "value" (find returned &table[pos].value) or "throw"
    edges,      \* the edge list (SimpleGraph / std::vector<Edge>) of main()
    order,      \* the iteration order of the unordered sets of this run
    graph,      \* graph_2.cpp: the Graph of main(), node -> set of neighbours
    visited,    \* graph_2.cpp: the global VisitedSet visited
    grCalls,    \* history: the number of dfs and bfs calls of graph_2.cpp
    grCall,     \* the last traversal called, with its arguments
    grRet,      \* how that call ended: "void", "value", "crash" or "hang"
    grVal,      \* the int that call returned (bfs of graph_2.cpp), else 0
    grOut,      \* the nodes that call wrote to std::cout, in order
    root_,      \* PrefixTree: the TreeNode objects, each under the path of
                \* chars that leads to it from the root (the root under <<>>)
    words,      \* history: the arguments of the PrefixTree insert calls so far
    ptCall,     \* the last PrefixTree member function called, with its argument
    ptRet,      \* how that call ended: "void", "true", "false" or "value"
    ptAns       \* the vector that call returned (get_all_words), else <<>>

\* The members of HashTable and the record of its calls.
htVars ==
    <<table_, size_, inserted, resizes, allocated, call, ret, val, out>>

\* The LinearProbingHashTable and the record of its calls.
lpVars == <<lp, lpCalls, lpCall, lpRet>>

\* The graphs, the global visited set and the record of the traversal calls.
grVars ==
    <<edges, order, graph, visited, grCalls, grCall, grRet, grVal, grOut>>

\* The PrefixTree and the record of its calls.
ptVars == <<root_, words, ptCall, ptRet, ptAns>>

vars == <<table_, size_, inserted, resizes, allocated, call, ret, val, out,
          lp, lpCalls, lpCall, lpRet,
          edges, order, graph, visited, grCalls, grCall, grRet, grVal, grOut,
          root_, words, ptCall, ptRet, ptAns>>

----------------------------------------------------------------------------
(* Helpers *)

Max(a, b) == IF a >= b THEN a ELSE b

Range(s) == {s[i] : i \in 1..Len(s)}

\* The number of elements of sequence s equal to k.
RECURSIVE CountIn(_, _)
CountIn(k, s) == IF s = <<>> THEN 0
                 ELSE (IF Head(s) = k THEN 1 ELSE 0) + CountIn(k, Tail(s))

\* The keys of all buckets, bucket 0 first and each bucket head first: the
\* order of `for (ListNode* head : table_) while (head) ... head = head->next`.
\* (The buckets are visited left to right; the recursion halves the vector.)
RECURSIVE walk(_)
walk(table) ==
    IF table = <<>> THEN <<>>
    ELSE IF Len(table) = 1 THEN table[1]
    ELSE LET mid == Len(table) \div 2
         IN  walk(SubSeq(table, 1, mid)) \o walk(SubSeq(table, mid + 1, Len(table)))

\* The number of nodes that hold k.
Count(k, table) == CountIn(k, walk(table))

\* std::vector<ListNode*>(n, nullptr): n empty buckets (none for n <= 0),
\* built as a tuple by halving n.
RECURSIVE nullptrs(_)
nullptrs(n) ==
    IF n <= 0 THEN <<>>
    ELSE IF n = 1 THEN << <<>> >>
    ELSE nullptrs(n \div 2) \o nullptrs(n - (n \div 2))

----------------------------------------------------------------------------
(* The private members *)

\* int % int of C++ truncates toward zero: the result has the sign of data.
hash(data, K) == IF data >= 0 THEN data % K ELSE -((-data) % K)

\* static_cast<double>(size_) / K, kept as the exact ratio num / den.
get_balance_factor(table, size) == [num |-> size, den |-> Len(table)]

\* insert(int, std::vector<ListNode*>&) as it would be if it linked the new
\* node in front of the list: `table[index] = new ListNode{data, head}`.
insert_in_front(data, table, size) ==
    LET index == hash(data, Len(table))
    IN  [table |-> [table EXCEPT ![index + 1] = <<data>> \o @],
         size  |-> size + 1]

\* insert(int, std::vector<ListNode*>&): a new node at the tail of bucket
\* hash(data, table.size()), and ++size_ on both paths.
insert_in(data, table, size) ==
    LET index == hash(data, Len(table))
    IN  [table |-> [table EXCEPT ![index + 1] = Append(@, data)],
         size  |-> size + 1]

\* The loop of resize(): insert(head->data, new_table) for every node.
\* (The keys are inserted first to last; the recursion halves the sequence,
\* and the test on st has the first half evaluated before the second.)
RECURSIVE rehash(_, _, _)
rehash(keys, new_table, size) ==
    IF keys = <<>> THEN [table |-> new_table, size |-> size]
    ELSE IF Len(keys) = 1 THEN insert_in(keys[1], new_table, size)
    ELSE LET mid == Len(keys) \div 2
             st == rehash(SubSeq(keys, 1, mid), new_table, size)
         IN  IF st.table = new_table THEN st
             ELSE rehash(SubSeq(keys, mid + 1, Len(keys)), st.table, st.size)

\* resize() as it would be with `if (head)` for `while (head)`: only the
\* first node of each bucket is re-inserted.
resize_heads(table, size) ==
    rehash(walk([i \in 1..Len(table) |->
                    IF table[i] = <<>> THEN <<>> ELSE <<table[i][1]>>]),
           nullptrs(2 * Len(table)), size)

\* resize() as it would be if the old lists were moved to the same indices
\* of new_table instead of being re-inserted.
resize_in_place(table, size) ==
    [table |-> table \o nullptrs(Len(table)),
     size  |-> size + Len(walk(table))]

\* resize() as it would be with `table_.size() + 2` for `table_.size() * 2`.
resize_plus_two(table, size) ==
    rehash(walk(table), nullptrs(Len(table) + 2), size)

\* resize(): new_table(table_.size() * 2, nullptr), the loop, std::swap.
resize(table, size) ==
    rehash(walk(table), nullptrs(2 * Len(table)), size)

----------------------------------------------------------------------------
(* The public members *)

\* HashTable(int cap) as it would be without std::max.
HashTable_unfloored(cap) == [table |-> nullptrs(cap), size |-> 0]

\* HashTable(int cap): size_(0), table_(std::max(cap, 10), nullptr).
HashTable(cap) ==
    [table |-> nullptrs(Max(cap, MinCapacity)), size |-> 0]

\* insert(int data) as it would be with `>= 0.5` for `> 0.5`.
insert_at_half(data, table, size) ==
    LET bf == get_balance_factor(table, size)
        st == IF 2 * bf.num >= bf.den THEN resize(table, size)
              ELSE [table |-> table, size |-> size]
    IN  insert_in(data, st.table, st.size)

\* insert(int data): if (get_balance_factor() > 0.5) resize(); then
\* insert(data, table_).  num / den > 0.5 exactly when 2 * num > den.
insert(data, table, size) ==
    LET bf == get_balance_factor(table, size)
        st == IF 2 * bf.num > bf.den THEN resize(table, size)
              ELSE [table |-> table, size |-> size]
    IN  insert_in(data, st.table, st.size)

\* The `new ListNode` expressions that insert(int data) evaluates: one in
\* each insert(head->data, new_table) of resize(), that is one for every
\* node of table_, and one in insert(data, table_).
news(data, table, size) ==
    LET bf == get_balance_factor(table, size)
    IN  (IF 2 * bf.num > bf.den THEN Len(walk(table)) ELSE 0) + 1

\* The `delete` expressions that insert(int data) evaluates: the class has
\* none (resize() swaps the vectors and lets the old one go out of scope).
deletes == 0

\* Reading table_[index] for an index outside 0 .. table_.size() - 1 is
\* undefined: the read yields an arbitrary pointer.
OutOfRangeRead == {"crash", "hang", "true", "false"}

\* A loop that neither advances nor has a side effect is undefined (forward
\* progress): an unoptimised build spins for ever, an optimising build may
\* take the only exit of the loop, return true.
NoProgress == {"hang", "true"}

\* The cursor after one iteration of the while loop of find(): the body has
\* no head = head->next.
find_next(pos) == pos

\* The while loop of find(); pos is the node head points to, Len(bucket) + 1
\* the null pointer.
RECURSIVE find_scan(_, _, _)
find_scan(bucket, pos, data) ==
    IF pos > Len(bucket) THEN {"false"}
    ELSE IF bucket[pos] = data THEN {"true"}
    ELSE IF find_next(pos) = pos THEN NoProgress
    ELSE find_scan(bucket, find_next(pos), data)

\* find(int data): the set of ways the call can end.
find(data, table) ==
    LET index == hash(data, Len(table))
    IN  IF index < 0 \/ index >= Len(table) THEN OutOfRangeRead
        ELSE find_scan(table[index + 1], 1, data)

\* erase() as it would be with a stray --size_ before the return.
erase_decrements(data, table, size) ==
    [ret |-> "false", table |-> table, size |-> size - 1]

\* erase() as it would be if it unlinked the first node that holds data.
erase_unlinks(data, table, size) ==
    LET index  == hash(data, Len(table))
        inside == index >= 0 /\ index < Len(table)
        bucket == IF inside THEN table[index + 1] ELSE <<>>
        hits   == {j \in 1..Len(bucket) : bucket[j] = data}
    IN  IF hits = {} THEN [ret |-> "false", table |-> table, size |-> size]
        ELSE LET j == CHOOSE h \in hits : \A g \in hits : h <= g
             IN  [ret   |-> "true",
                  table |-> [table EXCEPT ![index + 1] =
                                SubSeq(bucket, 1, j - 1)
                                \o SubSeq(bucket, j + 1, Len(bucket))],
                  size  |-> size - 1]

\* erase(int data): `// ...  return false;`.
erase(data, table, size) == [ret |-> "false", table |-> table, size |-> size]

\* size(): return size_.
size(table, sz) == sz

\* print(): every data field, in the order of walk.
print(table) == walk(table)

----------------------------------------------------------------------------
(* LinearProbingHashTable<K, V> of hashing.md, for K = V = int.  Slot pos of *)
(* the C++ vector is position pos + 1 of table.                              *)

\* Entry(): status(EMPTY); key and value are not set, and never read while
\* the status is EMPTY.
EmptyEntry == [key |-> 0, value |-> 0, status |-> "EMPTY"]

\* Entry(k, v): key(k), value(v), status(OCCUPIED).
Entry(k, v) == [key |-> k, value |-> v, status |-> "OCCUPIED"]

\* The inner for loop of nextPrime: n has no odd divisor i, i + 2, ... with
\* i * i <= n.
RECURSIVE isPrime(_, _)
isPrime(n, i) ==
    IF i * i > n THEN TRUE
    ELSE IF n % i = 0 THEN FALSE
    ELSE isPrime(n, i + 2)

\* The while (true) loop of nextPrime, n odd.
RECURSIVE nextPrimeLoop(_)
nextPrimeLoop(n) == IF isPrime(n, 3) THEN n ELSE nextPrimeLoop(n + 2)

\* nextPrime(n).
nextPrime(n) ==
    IF n <= 2 THEN 2
    ELSE nextPrimeLoop(IF n % 2 = 0 THEN n + 1 ELSE n)

\* hash(key): std::hash<int>{}(key) % tableSize, std::hash<int> the identity
\* (keys >= 0).
lp_hash(key, tableSize) == key % tableSize

\* LinearProbingHashTable(size): tableSize(nextPrime(size)), numElements(0),
\* numDeleted(0), table.resize(tableSize).
LinearProbingHashTable(n) ==
    [table       |-> [i \in 1..nextPrime(n) |-> EmptyEntry],
     tableSize   |-> nextPrime(n),
     numElements |-> 0,
     numDeleted  |-> 0,
     thrown      |-> FALSE]

RECURSIVE lp_insert(_, _, _)
RECURSIVE lp_resize(_)

\* The probe loop of insert from iteration i on.  The test for DELETED comes
\* after the slot is overwritten with an OCCUPIED entry.
RECURSIVE lp_insert_probe(_, _, _, _)
lp_insert_probe(key, value, t, i) ==
    IF i >= t.tableSize THEN [t EXCEPT !.thrown = TRUE]
    ELSE LET pos == (lp_hash(key, t.tableSize) + i) % t.tableSize
             e   == t.table[pos + 1]
         IN  IF e.status = "EMPTY" \/ e.status = "DELETED"
             THEN LET t1 == [t EXCEPT !.table[pos + 1] = Entry(key, value)]
                  IN  [t1 EXCEPT
                         !.numDeleted = IF t1.table[pos + 1].status = "DELETED"
                                        THEN @ - 1 ELSE @,
                         !.numElements = @ + 1]
             ELSE IF e.key = key
             THEN [t EXCEPT !.table[pos + 1].value = value]
             ELSE lp_insert_probe(key, value, t, i + 1)

\* The loop of resize() over oldTable from slot i on; an exception of insert
\* ends it.
RECURSIVE lp_rehash(_, _, _)
lp_rehash(oldTable, i, t) ==
    IF i > Len(oldTable) \/ t.thrown THEN t
    ELSE IF oldTable[i].status = "OCCUPIED"
    THEN lp_rehash(oldTable, i + 1,
                   lp_insert(oldTable[i].key, oldTable[i].value, t))
    ELSE lp_rehash(oldTable, i + 1, t)

\* resize(): tableSize = nextPrime(tableSize * 2), a table of EMPTY entries,
\* numElements = numDeleted = 0, then insert of every OCCUPIED old entry.
lp_resize(t) ==
    LET newSize == nextPrime(t.tableSize * 2)
    IN  lp_rehash(t.table, 1,
                  [table       |-> [i \in 1..newSize |-> EmptyEntry],
                   tableSize   |-> newSize,
                   numElements |-> 0,
                   numDeleted  |-> 0,
                   thrown      |-> FALSE])

\* insert(key, value): resize() if numElements / tableSize > MAX_LOAD_FACTOR
\* (0.5), then the probe loop.
lp_insert(key, value, t) ==
    LET t1 == IF 2 * t.numElements > t.tableSize THEN lp_resize(t) ELSE t
    IN  IF t1.thrown THEN t1 ELSE lp_insert_probe(key, value, t1, 0)

\* The probe loop of find from iteration i on: the slot of the key, or 0 for
\* nullptr.
RECURSIVE lp_find_probe(_, _, _)
lp_find_probe(key, t, i) ==
    IF i >= t.tableSize THEN 0
    ELSE LET pos == (lp_hash(key, t.tableSize) + i) % t.tableSize
             e   == t.table[pos + 1]
         IN  IF e.status = "EMPTY" THEN 0
             ELSE IF e.status = "OCCUPIED" /\ e.key = key THEN pos + 1
             ELSE lp_find_probe(key, t, i + 1)

\* find(key): the position of the entry whose value it points to, 0 for
\* nullptr.
lp_find(key, t) == lp_find_probe(key, t, 0)

\* remove() as it would be if it marked the slot EMPTY.
RECURSIVE lp_remove_probe_empty(_, _, _)
lp_remove_probe_empty(key, t, i) ==
    IF i >= t.tableSize THEN [ret |-> "false", t |-> t]
    ELSE LET pos == (lp_hash(key, t.tableSize) + i) % t.tableSize
             e   == t.table[pos + 1]
         IN  IF e.status = "EMPTY" THEN [ret |-> "false", t |-> t]
             ELSE IF e.status = "OCCUPIED" /\ e.key = key
             THEN LET t1 == [t EXCEPT !.table[pos + 1].status = "EMPTY",
                                      !.numElements = @ - 1,
                                      !.numDeleted = @ + 1]
                      t2 == IF t1.numDeleted > t1.tableSize \div 4
                            THEN lp_resize(t1) ELSE t1
                  IN  [ret |-> IF t2.thrown THEN "throw" ELSE "true", t |-> t2]
             ELSE lp_remove_probe_empty(key, t, i + 1)

\* The probe loop of remove from iteration i on.
RECURSIVE lp_remove_probe(_, _, _)
lp_remove_probe(key, t, i) ==
    IF i >= t.tableSize THEN [ret |-> "false", t |-> t]
    ELSE LET pos == (lp_hash(key, t.tableSize) + i) % t.tableSize
             e   == t.table[pos + 1]
         IN  IF e.status = "EMPTY" THEN [ret |-> "false", t |-> t]
             ELSE IF e.status = "OCCUPIED" /\ e.key = key
             THEN LET t1 == [t EXCEPT !.table[pos + 1].status = "DELETED",
                                      !.numElements = @ - 1,
                                      !.numDeleted = @ + 1]
                      t2 == IF t1.numDeleted > t1.tableSize \div 4
                            THEN lp_resize(t1) ELSE t1
                  IN  [ret |-> IF t2.thrown THEN "throw" ELSE "true", t |-> t2]
             ELSE lp_remove_probe(key, t, i + 1)

\* remove(key).
lp_remove(key, t) == lp_remove_probe(key, t, 0)

----------------------------------------------------------------------------
(* The graph traversals of graph_2.cpp.  A Graph is a function from its     *)
(* keys to their sets of neighbours; a traversal works on the record of the *)
(* graph, the global visited set and the lines written to std::cout.        *)

\* CreateGraph(graph): ans[edge.a].insert(edge.b), ans[edge.b].insert(edge.a)
\* for every edge.
CreateGraph(es) ==
    LET idx == 1..Len(es)
    IN  [n \in {es[i].a : i \in idx} \cup {es[i].b : i \in idx} |->
            {es[i].b : i \in {j \in idx : es[j].a = n}}
            \cup {es[i].a : i \in {j \in idx : es[j].b = n}}]

\* graph[node] of std::unordered_map: a key that is absent is inserted with
\* an empty set.
subscript(g, node) ==
    IF node \in DOMAIN g THEN g
    ELSE [n \in DOMAIN g \cup {node} |-> IF n = node THEN {} ELSE g[n]]

\* for (int n : next): the elements of the set in the order of this run.
RECURSIVE iterate(_, _)
iterate(S, ord) ==
    IF S = {} THEN <<>>
    ELSE LET n == IF ord = "ascending"
                  THEN CHOOSE x \in S : \A y \in S : x <= y
                  ELSE CHOOSE x \in S : \A y \in S : x >= y
         IN  <<n>> \o iterate(S \ {n}, ord)

RECURSIVE g2_dfs(_, _, _)

\* The for loop of dfs(int, Graph&) from the i-th neighbour on.
RECURSIVE g2_dfs_for(_, _, _, _)
g2_dfs_for(next, i, st, ord) ==
    IF i > Len(next) THEN st
    ELSE g2_dfs_for(next, i + 1, g2_dfs(next[i], st, ord), ord)

\* dfs(int node, Graph& graph): return if node is in the global visited;
\* else print it, insert it, and dfs every neighbour.
g2_dfs(node, st, ord) ==
    IF node \in st.visited THEN st
    ELSE LET st1 == [graph   |-> subscript(st.graph, node),
                     visited |-> st.visited \cup {node},
                     out     |-> Append(st.out, node)]
         IN  g2_dfs_for(iterate(st1.graph[node], ord), 1, st1, ord)

\* How bfs ends: `return level`, `return -1` ("value"), or q.front() on an
\* empty queue ("empty_front").
bfs_result(how, v, st) ==
    [ret |-> how, val |-> v,
     graph |-> st.graph, visited |-> st.visited, out |-> st.out]

RECURSIVE g2_bfs_outer(_, _, _, _, _)

\* The loop `while (cnt > 0)` of bfs.  The `continue` of a visited node
\* skips `--cnt`, and the loop does not test q.empty().
RECURSIVE g2_bfs_inner(_, _, _, _, _, _)
g2_bfs_inner(q, cnt, level, end, st, ord) ==
    IF cnt <= 0 THEN g2_bfs_outer(q, level + 1, end, st, ord)
    ELSE IF q = <<>> THEN bfs_result("empty_front", level, st)
    ELSE LET curr == Head(q)
         IN  IF curr = end THEN bfs_result("value", level, st)
             ELSE IF curr \in st.visited
             THEN g2_bfs_inner(Tail(q), cnt, level, end, st, ord)
             ELSE LET st1 == [graph   |-> subscript(st.graph, curr),
                              visited |-> st.visited \cup {curr},
                              out     |-> Append(st.out, curr)]
                  IN  g2_bfs_inner(Tail(q) \o iterate(st1.graph[curr], ord),
                                   cnt - 1, level, end, st1, ord)

\* The loop `while (!q.empty())` of bfs: cnt = q.size(), the inner loop,
\* ++level; `return -1` after it.
g2_bfs_outer(q, level, end, st, ord) ==
    IF q = <<>> THEN bfs_result("value", -1, st)
    ELSE g2_bfs_inner(q, Len(q), level, end, st, ord)

\* bfs(int begin, int end, Graph& graph): level = 0, q.push(begin), the loop.
g2_bfs(begin, end, st, ord) == g2_bfs_outer(<<begin>>, 0, end, st, ord)

\* q.front() and q.pop() on an empty std::queue are undefined: the call
\* crashes, never returns, or goes on with a stale int and returns some
\* value.
EmptyFront == {"crash", "hang", "value"}

\* The ints bfs may return after it has read a stale value.
StaleReturns == {-1, 0, 1}

----------------------------------------------------------------------------
(* The traversals of the edge-list snippet: dfs(start_node, edges) and      *)
(* bfs(start_node, edges) build the graph and a local visited set per call. *)

\* The loop over edges of dfs and of bfs: graph[edge.a].insert(edge.b),
\* graph[edge.b].insert(edge.a).
edge_graph(es) ==
    LET idx == 1..Len(es)
    IN  [n \in {es[i].a : i \in idx} \cup {es[i].b : i \in idx} |->
            {es[i].b : i \in {j \in idx : es[j].a = n}}
            \cup {es[i].a : i \in {j \in idx : es[j].b = n}}]

RECURSIVE dfs_graph(_, _, _)

\* The for loop of dfs_graph from the i-th neighbour on.
RECURSIVE dfs_graph_for(_, _, _, _)
dfs_graph_for(next, i, st, ord) ==
    IF i > Len(next) THEN st
    ELSE dfs_graph_for(next, i + 1, dfs_graph(next[i], st, ord), ord)

\* dfs_graph(node, graph, visited): return if node is in visited; else
\* insert it, print it, and dfs_graph every neighbour.
dfs_graph(node, st, ord) ==
    IF node \in st.visited THEN st
    ELSE LET st1 == [graph   |-> subscript(st.graph, node),
                     visited |-> st.visited \cup {node},
                     out     |-> Append(st.out, node)]
         IN  dfs_graph_for(iterate(st1.graph[node], ord), 1, st1, ord)

\* dfs(start_node, edges): the graph of the edges, Set<int> visited, and
\* dfs_graph(start_node, graph, visited).  The lines written to std::cout.
el_dfs(start_node, es, ord) ==
    dfs_graph(start_node,
              [graph |-> edge_graph(es), visited |-> {}, out |-> <<>>],
              ord).out

\* The while loop of bfs as it would be with a stack for the queue: the
\* neighbours are taken before the nodes that were pushed earlier.
RECURSIVE bfs_while_lifo(_, _, _)
bfs_while_lifo(q, st, ord) ==
    IF q = <<>> THEN st
    ELSE LET curr == Head(q)
         IN  IF curr \in st.visited THEN bfs_while_lifo(Tail(q), st, ord)
             ELSE LET st1 == [graph   |-> subscript(st.graph, curr),
                              visited |-> st.visited \cup {curr},
                              out     |-> Append(st.out, curr)]
                  IN  bfs_while_lifo(iterate(st1.graph[curr], ord) \o Tail(q),
                                     st1, ord)

\* The loop `while (!q.empty())` of bfs: pop curr; continue if visited;
\* else print it, insert it, push every neighbour.
RECURSIVE bfs_while(_, _, _)
bfs_while(q, st, ord) ==
    IF q = <<>> THEN st
    ELSE LET curr == Head(q)
         IN  IF curr \in st.visited THEN bfs_while(Tail(q), st, ord)
             ELSE LET st1 == [graph   |-> subscript(st.graph, curr),
                              visited |-> st.visited \cup {curr},
                              out     |-> Append(st.out, curr)]
                  IN  bfs_while(Tail(q) \o iterate(st1.graph[curr], ord),
                                st1, ord)

\* bfs(start_node, edges): the graph of the edges, Set<int> visited,
\* q.push(start_node) and the loop.  The lines written to std::cout.
el_bfs(start_node, es, ord) ==
    bfs_while(<<start_node>>,
              [graph |-> edge_graph(es), visited |-> {}, out |-> <<>>],
              ord).out

----------------------------------------------------------------------------
(* PrefixTree.  A TreeNode pointer is the path of the node; the array next   *)
(* of a node holds, for letter c, the node under the path extended by c, or *)
(* nullptr when the tree has no such node.                                   *)

nullptr == "nullptr"

\* TreeNode(): next.fill(nullptr), cnt = 0, is_word = false.
TreeNode == [cnt |-> 0, is_word |-> FALSE]

\* PrefixTree(): root_ = new TreeNode().
PrefixTree == [p \in {<<>>} |-> TreeNode]

\* curr->get_node(c): next[c - 'a'].
get_node(t, curr, c) ==
    IF Append(curr, c) \in DOMAIN t THEN Append(curr, c) ELSE nullptr

\* curr->set_node(c): next[c - 'a'] = new TreeNode().
set_node(t, curr, c) ==
    [p \in DOMAIN t \cup {Append(curr, c)} |->
        IF p = Append(curr, c) THEN TreeNode ELSE t[p]]

\* The for loop of insert from char i on (i counts from 1), then
\* curr->is_word = true and ++(curr->cnt).
RECURSIVE pt_insert_for(_, _, _, _)
pt_insert_for(word, i, curr, t) ==
    IF i > Len(word)
    THEN [t EXCEPT ![curr] = [cnt |-> @.cnt + 1, is_word |-> TRUE]]
    ELSE LET c  == word[i]
             t1 == IF get_node(t, curr, c) = nullptr
                   THEN set_node(t, curr, c) ELSE t
         IN  pt_insert_for(word, i + 1, get_node(t1, curr, c), t1)

\* insert(word).
pt_insert(word, t) == pt_insert_for(word, 1, <<>>, t)

\* The for loop of find as it would be with `return true` after it: every
\* path of the tree is found.
RECURSIVE pt_find_for_prefix(_, _, _, _)
pt_find_for_prefix(word, i, curr, t) ==
    IF i > Len(word) THEN TRUE
    ELSE LET next == get_node(t, curr, word[i])
         IN  IF next = nullptr THEN FALSE
             ELSE pt_find_for_prefix(word, i + 1, next, t)

\* The for loop of find from char i on: false at a nullptr, and
\* curr->is_word after the loop.
RECURSIVE pt_find_for(_, _, _, _)
pt_find_for(word, i, curr, t) ==
    IF i > Len(word) THEN t[curr].is_word
    ELSE LET next == get_node(t, curr, word[i])
         IN  IF next = nullptr THEN FALSE
             ELSE pt_find_for(word, i + 1, next, t)

\* find(word).
pt_find(word, t) == pt_find_for(word, 1, <<>>, t)

RECURSIVE pt_dfs(_, _, _)

\* The for loop of dfs from i on: for a child, push its char on path, push
\* path on ans if the child is a word, dfs the child, pop the char.  (path
\* is always the path of root; the test on sub has the subtree evaluated
\* before the loop goes on.)
RECURSIVE pt_dfs_for(_, _, _, _)
pt_dfs_for(t, root, i, ans) ==
    IF i >= 26 THEN ans
    ELSE LET child == get_node(t, root, i)
             sub   == pt_dfs(t, child,
                             IF t[child].is_word
                             THEN Append(ans, child) ELSE ans)
         IN  IF child = nullptr THEN pt_dfs_for(t, root, i + 1, ans)
             ELSE IF sub = ans THEN pt_dfs_for(t, root, i + 1, ans)
             ELSE pt_dfs_for(t, root, i + 1, sub)

\* dfs(root, path, ans).
pt_dfs(t, root, ans) ==
    IF root = nullptr THEN ans ELSE pt_dfs_for(t, root, 0, ans)

\* get_all_words(): dfs(root_, path, ans) with both empty.
get_all_words(t) == pt_dfs(t, <<>>, <<>>)

----------------------------------------------------------------------------
(* The state machine *)

\* A call that hangs or crashes never returns: no later call is made.
Running == ret \notin {"hang", "crash"}

\* The graphs take no part in the behaviours of the hash tables and of the
\* PrefixTree.
GRIdle ==
    /\ edges = MainEdges
    /\ order = "ascending"
    /\ graph = CreateGraph(MainEdges)
    /\ visited = {}
    /\ grCalls = 0
    /\ grCall = [name |-> "main", begin |-> 0, end |-> 0]
    /\ grRet = "void"
    /\ grVal = 0
    /\ grOut = <<>>

\* The PrefixTree takes no part in the behaviours of the hash tables and of
\* the graphs.
PTIdle ==
    /\ root_ = PrefixTree
    /\ words = <<>>
    /\ ptCall = [name |-> "new", word |-> <<>>]
    /\ ptRet = "void"
    /\ ptAns = <<>>

\* The linear probing table takes no part in the behaviours of HashTable.
LPIdle ==
    /\ lp = LinearProbingHashTable(5)
    /\ lpCalls = 0
    /\ lpCall = [name |-> "new", key |-> 5, value |-> 0]
    /\ lpRet = "void"

Init ==
    \E cap \in CapRequests :
        /\ table_ = HashTable(cap).table
        /\ size_ = HashTable(cap).size
        /\ inserted = <<>>
        /\ resizes = 0
        /\ allocated = 0
        /\ call = [name |-> "new", arg |-> cap]
        /\ ret = "void"
        /\ val = 0
        /\ out = <<>>
        /\ LPIdle
        /\ GRIdle
        /\ PTIdle

DoInsert(k) ==
    LET st == insert(k, table_, size_)
    IN  /\ table_' = st.table
        /\ size_' = st.size
        /\ inserted' = Append(inserted, k)
        /\ resizes' = resizes + (IF Len(st.table) # Len(table_) THEN 1 ELSE 0)
        /\ allocated' = allocated + news(k, table_, size_) - deletes
        /\ call' = [name |-> "insert", arg |-> k]
        /\ ret' = "void"
        /\ val' = 0
        /\ out' = <<>>
        /\ UNCHANGED <<lpVars, grVars, ptVars>>

CallInsert(k) ==
    /\ Running
    /\ Len(inserted) < MaxInserts
    /\ DoInsert(k)

\* find() as it would be if it advanced by unlinking the node it has
\* compared: `table_[index] = head->next`.
CallFind_unlinking(k) ==
    LET index == hash(k, Len(table_))
        inside == index >= 0 /\ index < Len(table_)
    IN  /\ Running
        /\ \E r \in find(k, table_) : ret' = r
        /\ call' = [name |-> "find", arg |-> k]
        /\ val' = 0
        /\ out' = <<>>
        /\ table_' = IF inside /\ table_[index + 1] # <<>>
                         /\ table_[index + 1][1] # k
                     THEN [table_ EXCEPT ![index + 1] = Tail(@)]
                     ELSE table_
        /\ UNCHANGED <<size_, inserted, resizes, allocated>>
        /\ UNCHANGED <<lpVars, grVars, ptVars>>

CallFind(k) ==
    /\ Running
    /\ \E r \in find(k, table_) : ret' = r
    /\ call' = [name |-> "find", arg |-> k]
    /\ val' = 0
    /\ out' = <<>>
    /\ UNCHANGED <<table_, size_, inserted, resizes, allocated>>
    /\ UNCHANGED <<lpVars, grVars, ptVars>>

CallErase(k) ==
    LET st == erase(k, table_, size_)
    IN  /\ Running
        /\ table_' = st.table
        /\ size_' = st.size
        /\ ret' = st.ret
        /\ call' = [name |-> "erase", arg |-> k]
        /\ val' = 0
        /\ out' = <<>>
        /\ UNCHANGED <<inserted, resizes, allocated>>
        /\ UNCHANGED <<lpVars, grVars, ptVars>>

CallSize ==
    /\ Running
    /\ val' = size(table_, size_)
    /\ ret' = "value"
    /\ call' = [name |-> "size", arg |-> 0]
    /\ out' = <<>>
    /\ UNCHANGED <<table_, size_, inserted, resizes, allocated>>
    /\ UNCHANGED <<lpVars, grVars, ptVars>>

CallPrint ==
    /\ Running
    /\ out' = print(table_)
    /\ ret' = "void"
    /\ call' = [name |-> "print", arg |-> 0]
    /\ val' = 0
    /\ UNCHANGED <<table_, size_, inserted, resizes, allocated>>
    /\ UNCHANGED <<lpVars, grVars, ptVars>>

Next ==
    \/ \E k \in Keys : CallInsert(k)
    \/ \E k \in FindKeys : CallFind(k)
    \/ \E k \in FindKeys : CallErase(k)
    \/ CallSize
    \/ CallPrint

Spec == Init /\ [][Next]_vars

(* main(): HashTable table(10), the seven inserts in order; the queries of   *)
(* the scenario may be made after any of them.                               *)

MainInit ==
    /\ table_ = HashTable(MainCap).table
    /\ size_ = HashTable(MainCap).size
    /\ inserted = <<>>
    /\ resizes = 0
    /\ allocated = 0
    /\ call = [name |-> "new", arg |-> MainCap]
    /\ ret = "void"
    /\ val = 0
    /\ out = <<>>
    /\ LPIdle
    /\ GRIdle
    /\ PTIdle

MainInsert ==
    /\ Running
    /\ Len(inserted) < Len(MainKeys)
    /\ DoInsert(MainKeys[Len(inserted) + 1])

MainNext ==
    \/ MainInsert
    \/ \E k \in FindKeys : CallFind(k)
    \/ \E k \in FindKeys : CallErase(k)
    \/ CallSize
    \/ CallPrint

MainSpec == MainInit /\ [][MainNext]_vars

(* The scenario of 1000 distinct sequential integers inserted into a table   *)
(* that starts at the minimum capacity.                                      *)

SeqInit ==
    \E cap \in {c \in CapRequests : c <= MinCapacity} :
        /\ table_ = HashTable(cap).table
        /\ size_ = HashTable(cap).size
        /\ inserted = <<>>
        /\ resizes = 0
        /\ allocated = 0
        /\ call = [name |-> "new", arg |-> cap]
        /\ ret = "void"
        /\ val = 0
        /\ out = <<>>
        /\ LPIdle
        /\ GRIdle
        /\ PTIdle

\* The next integer of 0, 1, 2, ...
SeqInsert ==
    /\ Running
    /\ Len(inserted) < SeqInserts
    /\ DoInsert(Len(inserted))

SeqNext ==
    \/ SeqInsert
    \/ CallSize

SeqSpec == SeqInit /\ [][SeqNext]_vars

(* The linear probing table: a constructor call, then insert, find and     *)
(* remove in any order.                                                      *)

\* The HashTable takes no part in the behaviours of the linear probing table.
HTIdle ==
    /\ table_ = HashTable(MinCapacity).table
    /\ size_ = HashTable(MinCapacity).size
    /\ inserted = <<>>
    /\ resizes = 0
    /\ allocated = 0
    /\ call = [name |-> "new", arg |-> MinCapacity]
    /\ ret = "void"
    /\ val = 0
    /\ out = <<>>

LPInit ==
    /\ HTIdle
    /\ GRIdle
    /\ PTIdle
    /\ \E n \in LPSizes :
           /\ lp = LinearProbingHashTable(n)
           /\ lpCall = [name |-> "new", key |-> n, value |-> 0]
    /\ lpCalls = 0
    /\ lpRet = "void"

\* An exception of insert ends the run.
LPRunning == lpRet # "throw"

LPInsert(k, v) ==
    /\ LPRunning
    /\ lpCalls < MaxLPCalls
    /\ lp' = lp_insert(k, v, lp)
    /\ lpCalls' = lpCalls + 1
    /\ lpCall' = [name |-> "insert", key |-> k, value |-> v]
    /\ lpRet' = IF lp_insert(k, v, lp).thrown THEN "throw" ELSE "void"
    /\ UNCHANGED <<htVars, grVars, ptVars>>

LPFind(k) ==
    /\ LPRunning
    /\ lpRet' = IF lp_find(k, lp) = 0 THEN "nullptr" ELSE "value"
    /\ lpCall' = [name |-> "find", key |-> k,
                  value |-> IF lp_find(k, lp) = 0 THEN 0
                            ELSE lp.table[lp_find(k, lp)].value]
    /\ UNCHANGED <<lp, lpCalls>>
    /\ UNCHANGED <<htVars, grVars, ptVars>>

LPRemove(k) ==
    /\ LPRunning
    /\ lpCalls < MaxLPCalls
    /\ lp' = lp_remove(k, lp).t
    /\ lpCalls' = lpCalls + 1
    /\ lpCall' = [name |-> "remove", key |-> k, value |-> 0]
    /\ lpRet' = lp_remove(k, lp).ret
    /\ UNCHANGED <<htVars, grVars, ptVars>>

LPNext ==
    \/ \E k \in LPKeys, v \in LPValues : LPInsert(k, v)
    \/ \E k \in LPKeys : LPFind(k)
    \/ \E k \in LPKeys : LPRemove(k)

LPSpec == LPInit /\ [][LPNext]_vars

(* graph_2.cpp: main() builds the graph of an edge list; dfs and bfs are   *)
(* then called in any order, all on the one global visited set.            *)

G2Init ==
    /\ HTIdle
    /\ LPIdle
    /\ PTIdle
    /\ edges \in EdgeLists
    /\ order \in Orders
    /\ graph = CreateGraph(edges)
    /\ visited = {}
    /\ grCalls = 0
    /\ grCall = [name |-> "main", begin |-> 0, end |-> 0]
    /\ grRet = "void"
    /\ grVal = 0
    /\ grOut = <<>>

\* A call that crashes or hangs is the last one.
GRRunning == grRet \notin {"crash", "hang"}

G2Dfs(node) ==
    LET st == g2_dfs(node, [graph |-> graph, visited |-> visited,
                            out |-> <<>>], order)
    IN  /\ GRRunning
        /\ grCalls < MaxTraversals
        /\ grCalls' = grCalls + 1
        /\ graph' = st.graph
        /\ visited' = st.visited
        /\ grOut' = st.out
        /\ grCall' = [name |-> "dfs", begin |-> node, end |-> 0]
        /\ grRet' = "void"
        /\ grVal' = 0
        /\ UNCHANGED <<edges, order>>
        /\ UNCHANGED <<htVars, lpVars, ptVars>>

G2Bfs(begin, end) ==
    LET r == g2_bfs(begin, end, [graph |-> graph, visited |-> visited,
                                 out |-> <<>>], order)
    IN  /\ GRRunning
        /\ grCalls < MaxTraversals
        /\ grCalls' = grCalls + 1
        /\ graph' = r.graph
        /\ visited' = r.visited
        /\ grOut' = r.out
        /\ grCall' = [name |-> "bfs", begin |-> begin, end |-> end]
        /\ IF r.ret = "value"
           THEN grRet' = "value" /\ grVal' = r.val
           ELSE \E how \in EmptyFront :
                    /\ grRet' = how
                    /\ IF how = "value" THEN grVal' \in StaleReturns
                       ELSE grVal' = 0
        /\ UNCHANGED <<edges, order>>
        /\ UNCHANGED <<htVars, lpVars, ptVars>>

G2Next ==
    \/ \E node \in Nodes : G2Dfs(node)
    \/ \E begin \in Nodes, end \in Nodes : G2Bfs(begin, end)

G2Spec == G2Init /\ [][G2Next]_vars

(* The edge-list snippet: dfs(start_node, edges) and bfs(start_node, edges) *)
(* are called in any order; each builds its own graph and visited set.      *)

SnippetInit ==
    /\ HTIdle
    /\ LPIdle
    /\ PTIdle
    /\ edges \in EdgeLists
    /\ order \in Orders
    /\ graph = CreateGraph(MainEdges)
    /\ visited = {}
    /\ grCalls = 0
    /\ grCall = [name |-> "main", begin |-> 0, end |-> 0]
    /\ grRet = "void"
    /\ grVal = 0
    /\ grOut = <<>>

SnippetDfs(start_node) ==
    /\ grOut' = el_dfs(start_node, edges, order)
    /\ grCall' = [name |-> "dfs", begin |-> start_node, end |-> 0]
    /\ grRet' = "void"
    /\ grVal' = 0
    /\ UNCHANGED <<edges, order, graph, visited, grCalls>>
    /\ UNCHANGED <<htVars, lpVars, ptVars>>

SnippetBfs(start_node) ==
    /\ grOut' = el_bfs(start_node, edges, order)
    /\ grCall' = [name |-> "bfs", begin |-> start_node, end |-> 0]
    /\ grRet' = "void"
    /\ grVal' = 0
    /\ UNCHANGED <<edges, order, graph, visited, grCalls>>
    /\ UNCHANGED <<htVars, lpVars, ptVars>>

SnippetNext ==
    \/ \E start_node \in Nodes : SnippetDfs(start_node)
    \/ \E start_node \in Nodes : SnippetBfs(start_node)

SnippetSpec == SnippetInit /\ [][SnippetNext]_vars

(* PrefixTree: the constructor, then its member functions in any order.     *)

PTInit ==
    /\ HTIdle
    /\ LPIdle
    /\ GRIdle
    /\ root_ = PrefixTree
    /\ words = <<>>
    /\ ptCall = [name |-> "new", word |-> <<>>]
    /\ ptRet = "void"
    /\ ptAns = <<>>

PTInsert(word) ==
    /\ Len(words) < MaxTreeInserts
    /\ root_' = pt_insert(word, root_)
    /\ words' = Append(words, word)
    /\ ptCall' = [name |-> "insert", word |-> word]
    /\ ptRet' = "void"
    /\ ptAns' = <<>>
    /\ UNCHANGED <<htVars, lpVars, grVars>>

PTFind(word) ==
    /\ ptRet' = IF pt_find(word, root_) THEN "true" ELSE "false"
    /\ ptCall' = [name |-> "find", word |-> word]
    /\ ptAns' = <<>>
    /\ UNCHANGED <<root_, words>>
    /\ UNCHANGED <<htVars, lpVars, grVars>>

PTGetAllWords ==
    /\ ptAns' = get_all_words(root_)
    /\ ptRet' = "value"
    /\ ptCall' = [name |-> "get_all_words", word |-> <<>>]
    /\ UNCHANGED <<root_, words>>
    /\ UNCHANGED <<htVars, lpVars, grVars>>

\* erase(word) has an empty body.
PTErase(word) ==
    /\ ptCall' = [name |-> "erase", word |-> word]
    /\ ptRet' = "void"
    /\ ptAns' = <<>>
    /\ UNCHANGED <<root_, words>>
    /\ UNCHANGED <<htVars, lpVars, grVars>>

\* prefix_find(prefix) returns an empty vector.
PTPrefixFind(word) ==
    /\ ptCall' = [name |-> "prefix_find", word |-> word]
    /\ ptRet' = "value"
    /\ ptAns' = <<>>
    /\ UNCHANGED <<root_, words>>
    /\ UNCHANGED <<htVars, lpVars, grVars>>

PTNext ==
    \/ \E word \in InsertWords : PTInsert(word)
    \/ \E word \in FindWords : PTFind(word)
    \/ PTGetAllWords
    \/ \E word \in FindWords : PTErase(word)
    \/ \E word \in FindWords : PTPrefixFind(word)

PTSpec == PTInit /\ [][PTNext]_vars

TypeOK ==
    /\ \A i \in 1..Len(table_) : \A j \in 1..Len(table_[i]) : table_[i][j] \in Int
    /\ size_ \in Int
    /\ resizes \in Nat
    /\ ret \in {"void", "value", "true", "false", "hang", "crash"}

----------------------------------------------------------------------------
(* The claims *)

\* C1: after n insert calls on a freshly constructed table, size() returns
\* exactly n, also when the inserts trigger resizes.
SizeCountsInserts == size(table_, size_) = Len(inserted)

\* C2: when an insert call has returned, size() / capacity <= 0.5, with
\* capacity the current number of buckets.
LoadFactorBound ==
    call.name = "insert" => 2 * size(table_, size_) <= Len(table_)

\* C3: find(key) terminates in every reachable state and for every key (here:
\* every key >= 0), also on a non-empty bucket whose first node does not
\* hold the key.
FindTerminates ==
    (call.name = "find" /\ call.arg >= 0) => ret # "hang"

\* C4: once a sequence of inserts of non-negative keys has triggered a
\* resize, find(k) returns true for every inserted key k, whatever its
\* position in its bucket.
ResizePreservesMembership ==
    resizes >= 1 => \A k \in Range(inserted) : find(k, table_) = {"true"}

\* C5: find(k) returns true when k's bucket holds k and false when the
\* bucket is exhausted without a match, also when the bucket holds other
\* keys (stated for the keys k >= 0).
FindContract ==
    \A k \in FindKeys :
        k >= 0 => find(k, table_) = (IF Count(k, table_) > 0 THEN {"true"}
                                     ELSE {"false"})

\* C6: an erase(k) call on a table that stores k removes exactly one
\* occurrence of k: it returns true, size() decreases by exactly 1 and the
\* number of stored occurrences of k decreases by exactly 1 (so that after
\* two inserts of k, one erase leaves k found and two erases do not).
EraseRemovesOneOccurrence ==
    [][\A k \in FindKeys :
          (call'.name = "erase" /\ call'.arg = k /\ Count(k, table_) > 0)
              => /\ ret' = "true"
                 /\ size_' = size_ - 1
                 /\ Count(k, table_') = Count(k, table_) - 1]_vars

\* C7: erase(k) for a key k that was never inserted returns false and
\* leaves size() unchanged, in every reachable state.
EraseAbsentKey ==
    [][(call'.name = "erase" /\ call'.arg \notin Range(inserted))
          => (ret' = "false" /\ size(table_', size_') = size(table_, size_))]_vars

\* C7 witness: erase of a never inserted key has returned on a table that
\* holds other keys.
EraseAbsentKeyDone ==
    /\ call.name = "erase"
    /\ call.arg \notin Range(inserted)
    /\ inserted # <<>>
    /\ ret = "false"

\* C8: find(k) on a freshly constructed table (no insert yet) returns false,
\* for any key k.
FindOnFreshTable ==
    (inserted = <<>> /\ call.name = "find") => ret = "false"

\* C9 as stated: after HashTable(10) and the inserts 1, 15, 1, 2, 3, 1, 12
\* the capacity is still 10.
MainCapacityStays ==
    inserted = MainKeys => Len(table_) = MinCapacity

\* C9 as amended: after HashTable(10) and the inserts 1, 15, 1, 2, 3, 1, 12
\* the capacity is 20: none of the first six inserts resizes, and the
\* seventh, called at size() / capacity = 6 / 10 > 0.5, resizes exactly once.
MainCapacityDoubles ==
    /\ Len(inserted) < Len(MainKeys)
           => (Len(table_) = MinCapacity /\ resizes = 0)
    /\ inserted = MainKeys
           => (Len(table_) = 2 * MinCapacity /\ resizes = 1)

\* C9 witness: the seventh insert of main() has returned.
MainInsertsDone ==
    /\ inserted = MainKeys
    /\ call = [name |-> "insert", arg |-> MainKeys[Len(MainKeys)]]

\* C10: after HashTable(10) and the inserts 1, 15, 1, 2, 3, 1, 12, size()
\* is 7, find(1) and find(15) return true and find(999) returns false.
MainScenario ==
    inserted = MainKeys
        => /\ size(table_, size_) = Len(MainKeys)
           /\ find(1, table_) = {"true"}
           /\ find(15, table_) = {"true"}
           /\ find(999, table_) = {"false"}

\* c is base times a power of two.
RECURSIVE IsPowerOfTwoMultiple(_, _)
IsPowerOfTwoMultiple(c, base) ==
    \/ c = base
    \/ c > base /\ c % 2 = 0 /\ IsPowerOfTwoMultiple(c \div 2, base)

\* C11: after 1000 distinct sequential integers are inserted into a table
\* that starts at the minimum capacity, the capacity is the initial capacity
\* times a power of two and size() is 1000.
SeqScenario ==
    Len(inserted) = SeqInserts
        => /\ IsPowerOfTwoMultiple(Len(table_), MinCapacity)
           /\ size(table_, size_) = SeqInserts

\* C12: hash(key, capacity) is an index with 0 <= index < capacity for every
\* key of type int, negative keys included, so that find and insert never
\* index table_ out of range.
HashInRange ==
    \A k \in FindKeys :
        /\ 0 <= hash(k, Len(table_))
        /\ hash(k, Len(table_)) < Len(table_)

\* C13: the constructor sets the capacity to the requested capacity, or to
\* 10 when the request is below 10 (zero and negative requests included),
\* and the capacity is >= 1 in every reachable state.
ConstructorCapacity ==
    /\ call.name = "new"
           => Len(table_) = (IF call.arg < 10 THEN 10 ELSE call.arg)
    /\ Len(table_) >= 1

\* C13 witness: a table constructed from a request <= 0.
ConstructedBelowFloor ==
    /\ call.name = "new"
    /\ call.arg <= 0
    /\ Len(table_) = 10

\* C14: find(key) and size() are read-only: they leave the buckets, the order
\* of the keys in each bucket, the capacity and the element count unchanged.
ReadOnlyQueries ==
    [][call'.name \in {"find", "size"}
          => (table_' = table_ /\ size_' = size_)]_vars

\* C14 witness: find has returned on a table with a bucket of several keys.
FindOnLongBucketDone ==
    /\ call.name = "find"
    /\ ret = "true"
    /\ \E i \in 1..Len(table_) : Len(table_[i]) >= 2 /\ call.arg = table_[i][1]

\* C16: resize() neither loses nor duplicates a key: at every insert that
\* resizes, the keys stored right after the resize are, with multiplicity,
\* the keys stored right before it.
ResizeKeepsKeys ==
    [][resizes' # resizes
          => /\ \A k \in Keys :
                    Count(k, resize(table_, size_).table) = Count(k, table_)
             /\ Len(walk(resize(table_, size_).table)) = Len(walk(table_))
             /\ \A k \in Keys :
                    Count(k, table_') = Count(k, table_)
                                        + (IF call'.arg = k THEN 1 ELSE 0)]_vars

\* C16 witness: a resize has happened on a table with a duplicate key and a
\* bucket shared by two keys.
ResizedSharedBucket ==
    /\ resizes >= 1
    /\ Count(1, table_) >= 2
    /\ Count(41, table_) >= 1

\* C17: resize() changes only the bucket layout and the capacity: size() has
\* the same value right after a resize as right before it.
ResizeKeepsSize ==
    [][resizes' # resizes => resize(table_, size_).size = size_]_vars

\* C18: between the public operations, every key stored in bucket i
\* satisfies hash(key, capacity) = i, also after resizes.
BucketsMatchHash ==
    \A i \in 1..Len(table_) : \A j \in 1..Len(table_[i]) :
        hash(table_[i][j], Len(table_)) = i - 1

\* C18 witness: after a resize, a key whose bucket index has changed.
ResizedMovedKey ==
    /\ resizes >= 1
    /\ \E k \in Range(inserted) :
           hash(k, Len(table_)) # hash(k, Len(table_) \div 2)

\* C19: insert(key) resizes exactly when size() / capacity > 0.5 holds as it
\* is called (at exactly 0.5 it does not), before the key is added, and one
\* insert resizes at most once (the capacity at most doubles).
ResizeExactlyWhenOverHalf ==
    [][inserted' # inserted
          => IF 2 * size(table_, size_) > Len(table_)
             THEN Len(table_') = 2 * Len(table_) /\ resizes' = resizes + 1
             ELSE Len(table_') = Len(table_) /\ resizes' = resizes]_vars

\* C19 witness: an insert called at size() / capacity = 0.5 exactly has
\* returned without a resize.
InsertAtHalfDone ==
    /\ call.name = "insert"
    /\ resizes = 0
    /\ 2 * (size(table_, size_) - 1) = Len(table_)

\* C20: every resize sets the capacity to exactly twice its value, and no
\* operation ever decreases the capacity.
CapacityOnlyDoubles ==
    [][\/ Len(table_') = Len(table_) /\ resizes' = resizes
       \/ Len(table_') = 2 * Len(table_) /\ resizes' = resizes + 1]_vars

\* C20 witness: erase has returned on a table that was resized.
EraseAfterResizeDone ==
    /\ resizes >= 1
    /\ call.name = "erase"

\* C15: in LinearProbingHashTable deletion is lazy: a remove(A) that returns
\* true marks A's slot DELETED (unless it goes on to rebuild the table), and
\* find probes past DELETED slots, so every other key B that find found
\* before the remove, also one whose probe sequence passes through A's
\* former slot, is still found after it.
LazyDeletionKeepsProbes ==
    [][(lpCall'.name = "remove" /\ lpRet' = "true" /\ lpCalls' # lpCalls)
          => /\ \A b \in LPKeys :
                    (b # lpCall'.key /\ lp_find(b, lp) # 0)
                        => lp_find(b, lp') # 0
             /\ lp'.tableSize = lp.tableSize
                    => lp'.table = [lp.table EXCEPT
                           ![lp_find(lpCall'.key, lp)].status = "DELETED"]]_vars

\* C15 witness: remove(A) has returned true, and a key B is stored whose
\* probe sequence starts at the slot A was removed from.
RemovedBeforeProbedKey ==
    /\ lpCall.name = "remove"
    /\ lpRet = "true"
    /\ \E b \in LPKeys :
           LET home == lp.table[lp_hash(b, lp.tableSize) + 1]
           IN  /\ lp_find(b, lp) # 0
               /\ home.status = "DELETED"
               /\ home.key = lpCall.key

\* C21: within every bucket the keys appear in the order of the insert calls
\* that added them: bucket i holds exactly the inserted keys that hash to i,
\* in the order of their insert calls.  This holds after any number of
\* resizes: also, when an insert has returned, for the table that one, two
\* or three further resize() calls would give.
BucketsKeepInsertOrder ==
    LET InOrder(table) ==
            \A i \in 1..Len(table) :
                table[i] = SelectSeq(inserted,
                               LAMBDA k : hash(k, Len(table)) = i - 1)
        r1 == resize(table_, size_)
        r2 == resize(r1.table, r1.size)
        r3 == resize(r2.table, r2.size)
    IN  /\ InOrder(table_)
        /\ call.name = "insert"
               => InOrder(r1.table) /\ InOrder(r2.table) /\ InOrder(r3.table)

\* C21 witness: after a resize, a bucket holds 41, then 1, then 41 again.
ResizedInterleavedBucket ==
    /\ resizes >= 1
    /\ \E i \in 1..Len(table_) :
           /\ Len(table_[i]) >= 3
           /\ table_[i][1] = 41
           /\ table_[i][2] = 1
           /\ table_[i][3] = 41

\* C22: erase(key) is a stub: for every key, also a stored one, it returns
\* false and leaves the buckets, the capacity and size() unchanged.
EraseIsStub ==
    [][call'.name = "erase"
          => /\ ret' = "false"
             /\ table_' = table_
             /\ Len(table_') = Len(table_)
             /\ size(table_', size_') = size(table_, size_)]_vars

\* C22 witness: erase of a key that is stored twice has returned.
EraseStoredKeyDone ==
    /\ call.name = "erase"
    /\ ret = "false"
    /\ Count(call.arg, table_) >= 2

\* C24: an insert that triggered a resize leaves size() / capacity <= 0.5
\* when it returns (so that the insert call that follows it, which resizes
\* exactly when the ratio is above 0.5, does not resize again).
ResizingInsertLeavesHalf ==
    [][resizes' # resizes
          => 2 * size(table_', size_') <= Len(table_')]_vars

\* C25: between the public operations every list node that was allocated and
\* not freed is reachable from table_: the nodes that the buckets hold are
\* all the nodes there are.
NodesReachable == allocated = Len(walk(table_))

\* The nodes at most k edges away from s in the undirected graph of es.
RECURSIVE Within(_, _, _)
Within(es, s, k) ==
    IF k = 0 THEN {s}
    ELSE LET near == Within(es, s, k - 1)
         IN  near
             \cup {es[i].b : i \in {j \in 1..Len(es) : es[j].a \in near}}
             \cup {es[i].a : i \in {j \in 1..Len(es) : es[j].b \in near}}

\* The connected component of s.
Component(es, s) == Within(es, s, Len(es))

\* The number of edges of a shortest path from s to t, -1 if there is none.
Distance(es, s, t) ==
    IF t \notin Component(es, s) THEN -1
    ELSE CHOOSE k \in 0..Len(es) :
             /\ t \in Within(es, s, k)
             /\ k > 0 => t \notin Within(es, s, k - 1)

\* The traversal record at the start of the process: the graph that main()
\* has built and an empty visited set.
Fresh == [graph |-> CreateGraph(edges), visited |-> {}, out |-> <<>>]

\* C23: each dfs and bfs call of graph_2.cpp works on a fresh or reset
\* visited set: the nodes it visits and the value it returns are those of
\* the same call made first in the process, whatever calls came before it.
TraversalsIndependent ==
    [][grCalls' # grCalls
          => /\ grCall'.name = "dfs"
                    => grOut' = g2_dfs(grCall'.begin, Fresh, order).out
             /\ grCall'.name = "bfs"
                    => LET first == g2_bfs(grCall'.begin, grCall'.end,
                                           Fresh, order)
                       IN  first.ret = "value"
                               => /\ grRet' = "value"
                                  /\ grVal' = first.val
                                  /\ grOut' = first.out]_vars

\* C26: bfs(begin, end, graph) of graph_2.cpp, called with an empty visited
\* set, never reads the front of an empty queue and returns the number of
\* edges of a shortest path from begin to end, or -1 when there is none.
BfsReturnsDistance ==
    [][(grCalls' # grCalls /\ grCall'.name = "bfs" /\ visited = {})
          => /\ g2_bfs(grCall'.begin, grCall'.end,
                       [graph |-> graph, visited |-> visited, out |-> <<>>],
                       order).ret # "empty_front"
             /\ grRet' = "value"
             /\ grVal' = Distance(edges, grCall'.begin, grCall'.end)]_vars

\* C27: dfs(start, edges) and bfs(start, edges) of the edge-list snippet
\* return, and print every node of the connected component of start exactly
\* once and no other node; bfs prints them in non-decreasing order of their
\* distance from start.
SnippetVisitsComponent ==
    grCall.name \in {"dfs", "bfs"}
        => /\ grRet = "void"
           /\ Range(grOut) = Component(edges, grCall.begin)
           /\ Len(grOut) = Cardinality(Component(edges, grCall.begin))
           /\ grCall.name = "bfs"
                  => \A i \in 1..Len(grOut) : \A j \in i..Len(grOut) :
                         Distance(edges, grCall.begin, grOut[i])
                             <= Distance(edges, grCall.begin, grOut[j])

\* C27 witness: bfs has printed a component with a node three edges from
\* start, of a graph that has an edge outside that component.
SnippetBfsDone ==
    /\ grCall.name = "bfs"
    /\ \E n \in Range(grOut) : Distance(edges, grCall.begin, n) >= 3
    /\ \E i \in 1..Len(edges) : edges[i].a \notin Range(grOut)

\* C28: in LinearProbingHashTable the table never holds the same key in two
\* OCCUPIED slots, and when remove(k) has returned true, find(k) returns
\* nullptr (until k is inserted again).
RemovedKeyIsGone ==
    /\ \A i \in 1..lp.tableSize : \A j \in 1..lp.tableSize :
           (/\ i # j
            /\ lp.table[i].status = "OCCUPIED"
            /\ lp.table[j].status = "OCCUPIED")
               => lp.table[i].key # lp.table[j].key
    /\ (lpCall.name = "remove" /\ lpRet = "true")
           => lp_find(lpCall.key, lp) = 0

\* u is a proper prefix of v.
IsProperPrefix(u, v) == Len(u) < Len(v) /\ SubSeq(v, 1, Len(u)) = u

\* C29: after any sequence of PrefixTree insert calls, find(w) returns true
\* exactly when w itself was inserted: a proper prefix or an extension of an
\* inserted word is not found unless it was inserted too.
FindExactlyInserted ==
    /\ \A w \in FindWords : pt_find(w, root_) = (w \in Range(words))
    /\ ptCall.name = "find"
           => ptRet = (IF ptCall.word \in Range(words) THEN "true"
                       ELSE "false")

\* C29 witness: find has returned false for a word that is a proper prefix
\* of one inserted word and an extension of another.
FindBetweenWordsDone ==
    /\ ptCall.name = "find"
    /\ ptRet = "false"
    /\ \E u \in Range(words), v \in Range(words) :
           IsProperPrefix(u, ptCall.word) /\ IsProperPrefix(ptCall.word, v)

\* u comes before v in lexicographic order.
LexLess(u, v) ==
    \/ IsProperPrefix(u, v)
    \/ \E k \in 1..Len(u) :
           /\ k <= Len(v)
           /\ SubSeq(u, 1, k - 1) = SubSeq(v, 1, k - 1)
           /\ u[k] < v[k]

\* C30: get_all_words() agrees with find, the empty word included: it
\* returns every word w with find(w) = true, each exactly once, in
\* lexicographic order, and no other word.
AllWordsAgreeWithFind ==
    ptCall.name = "get_all_words"
        => /\ Range(ptAns) = {w \in DOMAIN root_ : pt_find(w, root_)}
           /\ \A i \in 1..Len(ptAns) : \A j \in 1..Len(ptAns) :
                  i < j => LexLess(ptAns[i], ptAns[j])

====
